---- MODULE Spec2Model ----
(***************************************************************************)
(* Model of the payment-transaction engine of the M-Pesa integration       *)
(* platform: the transaction ledger (mongoose Transaction model), the      *)
(* TransactionService handlers, the WebhookService callback entry point    *)
(* and the three TransactionScheduler sweeps.                              *)
(*                                                                         *)
(* Time is counted in minutes.  Every handler is one atomic action (its    *)
(* database reads, the gateway call and the saves).                        *)
(***************************************************************************)
EXTENDS Integers, Sequences, FiniteSets, TLC

\* ------------------------------------------------------------------------
\* Bounds of the model
\* ------------------------------------------------------------------------
MaxTxn == 2

MaxEntries == 6

MaxTime == 31

\* ------------------------------------------------------------------------
\* Program constants
\* ------------------------------------------------------------------------
\* reconciliation looks at pending records not updated for 5 minutes
PendingCutoffMinutes == 5

\* expiry looks at initiated records created more than 30 minutes ago
ExpiryCutoffMinutes == 30

\* 'metadata.retryCount': { $lt: 3 }
MaxRetries == 3

\* Kenya STK result code "request cancelled by user"
CanceledByUserCode == 1032

\* batch sizes of the sweeps
PendingBatchLimit == 100

ExpiredBatchLimit == 100

RetryBatchLimit == 50

\* ------------------------------------------------------------------------
\* Values
\* ------------------------------------------------------------------------
None == "none"

\* a status enum that also admits the retry sweep's 'retry'
StatusEnum_WithRetry ==
  {"initiated", "pending", "processing", "completed", "failed", "canceled", "expired",
   "retry"}

\* status enum of the Transaction schema (status and statusHistory.status)
StatusEnum ==
  {"initiated", "pending", "processing", "completed", "failed", "canceled", "expired"}

CurrencyEnum == {"KES", "TZS", "UGX", "RWF", "MZN", "CDF"}

CountryEnum == {"kenya", "tanzania", "uganda", "rwanda", "mozambique", "drc"}

Digits == {"0", "1", "2", "3", "4", "5", "6", "7", "8", "9"}

\* phone numbers are sequences of characters
PhoneLocal == <<"0", "7", "1", "2", "3", "4", "5", "6", "7", "8">>

PhoneShort == <<"0", "7", "1">>

\* JavaScript values that a gateway reply may carry in a field
JsNum(n) == [t |-> "number", n |-> n]

JsStr(s) == [t |-> "string", s |-> s]

JsUndefined == [t |-> "undefined"]

\* JavaScript truthiness, as used by the || operator
Truthy(v) ==
  CASE v.t = "number" -> v.n # 0
    [] v.t = "string" -> v.s # ""
    [] OTHER -> FALSE

\* a || b
JsOr(a, b) == IF Truthy(a) THEN a ELSE b

\* a === b
StrictEq(a, b) ==
  /\ a.t = b.t
  /\ CASE a.t = "number" -> a.n = b.n
       [] a.t = "string" -> a.s = b.s
       [] OTHER -> TRUE

\* ------------------------------------------------------------------------
\* Businesses (owned by the Business collaborator, read only here)
\* ------------------------------------------------------------------------
Businesses == {"b1", "b2"}

\* Business.findOne({ 'apiKeys.key': apiKey })
BusinessOfKey(apiKey) ==
  CASE apiKey = "k1" -> "b1"
    [] apiKey = "k2" -> "b1"
    [] apiKey = "k3" -> "b2"
    [] OTHER -> None

\* apiKeys[..].isActive
KeyActive(apiKey) == apiKey \in {"k1", "k3"}

ApiKeys == {"k1", "k2", "k3", "bad"}

\* business.mpesaIntegrations[..].country
Integrations(b) == IF b = "b1" THEN {"kenya", "tanzania"} ELSE {}

\* business.webhookUrl
WebhookUrl(b) == IF b = "b1" THEN "https://b1.example/hook" ELSE None

\* ------------------------------------------------------------------------
\* State
\* ------------------------------------------------------------------------
VARIABLES
  txns,         \* the Transaction collection: a sequence, _id = index
  now,          \* the clock, in minutes
  checkoutSeq,  \* number of CheckoutRequestIDs issued by the gateway
  last,         \* the last operation, its inputs and what it returned
  webhook,      \* a WebhookNotificationService instance and the send it runs
  client,       \* a MpesaKenyaClient instance and the callers of authenticate
  call,         \* a call of a helper function: its arguments and its result
  procs         \* handlers running at the same time: where each one is and
                \* the document it holds

vars == <<txns, now, checkoutSeq, last, webhook, client, call, procs>>

TxnIds == 1..Len(txns)

\* uuidv4(): a fresh reference
Uuid(n) == <<"uuid-1", "uuid-2", "uuid-3", "uuid-4", "uuid-5", "uuid-6">>[n]

\* mpesaReference is 0 while it is undefined
NoReference == 0

\* a gateway that accepts a request without issuing a CheckoutRequestID
CheckoutId_Absent(n) == NoReference

\* the CheckoutRequestID the gateway issues for its n-th accepted request
CheckoutId(n) == n

NoMetadata == [canRetry |-> FALSE, retryCount |-> -1]

NoCallback == [cid |-> NoReference, resultCode |-> JsUndefined, receipt |-> None]

\* what an operation reports
NoLast ==
  [op |-> "init", txn |-> 0, ok |-> TRUE, err |-> None, gw |-> None,
   notified |-> FALSE, ret |-> None, ref |-> None,
   reply |-> JsUndefined, batch |-> {},
   delivery |-> "none", attempts |-> 0, threw |-> {}]

Result(op, txn, ok, err, gw, ret) ==
  [NoLast EXCEPT !.op = op, !.txn = txn, !.ok = ok, !.err = err, !.gw = gw, !.ret = ret]

\* a statusHistory entry; timestamp defaults to Date.now
HistoryEntry(status, timestamp, metadata, receipt) ==
  [status |-> status, timestamp |-> timestamp, reason |-> None,
   metadata |-> metadata, receipt |-> receipt]

\* ------------------------------------------------------------------------
\* The Transaction schema
\* ------------------------------------------------------------------------
\* phoneNumber validator: /^\+?[0-9]{10,15}$/
PhoneValid(p) ==
  LET body == IF Len(p) > 0 /\ p[1] = "+" THEN Tail(p) ELSE p
  IN /\ Len(body) >= 10
     /\ Len(body) <= 15
     /\ \A i \in 1..Len(body) : body[i] \in Digits

\* the schema's validators, run by save() before the pre-save hook
SchemaValid(doc) ==
  /\ doc.internalReference # ""
  /\ doc.amount >= 0
  /\ doc.currency \in CurrencyEnum
  /\ doc.country \in CountryEnum
  /\ PhoneValid(doc.phoneNumber)
  /\ doc.status \in StatusEnum
  /\ \A i \in 1..Len(doc.statusHistory) : doc.statusHistory[i].status \in StatusEnum

\* a hook that keeps only the newest entry when the status changes
PreSave_RewritesHistory(doc, isNew, statusModified) ==
  IF isNew
    THEN [doc EXCEPT !.statusHistory =
            <<HistoryEntry(doc.status, doc.createdAt, None, None)>>]
    ELSE IF statusModified
      THEN [doc EXCEPT !.statusHistory = <<HistoryEntry(doc.status, now, None, None)>>]
      ELSE doc

\* a hook that empties the history of a new document
PreSave_NoInitialEntry(doc, isNew, statusModified) ==
  IF isNew
    THEN [doc EXCEPT !.statusHistory = <<>>]
    ELSE IF statusModified
      THEN [doc EXCEPT !.statusHistory =
              Append(@, HistoryEntry(doc.status, now, None, None))]
      ELSE doc

\* transactionSchema.pre('save')
PreSave(doc, isNew, statusModified) ==
  LET d1 == IF isNew
              THEN [doc EXCEPT !.statusHistory =
                      <<HistoryEntry(doc.status, doc.createdAt, None, None)>>]
              ELSE IF statusModified
                THEN [doc EXCEPT !.statusHistory =
                        Append(@, HistoryEntry(doc.status, now, None, None))]
                ELSE doc
      d2 == IF d1.status \in {"failed", "canceled"} /\ d1.processedAt = -1
              THEN [d1 EXCEPT !.processedAt = now]
              ELSE d1
      d3 == IF d2.status = "completed" /\ d2.processedAt = -1
              THEN [d2 EXCEPT !.processedAt = now]
              ELSE d2
  IN d3

\* document.save(): validation, the pre-save hook, the timestamps plugin.
\* stored is the record as it is in the collection (status comparison for
\* isModified('status')); for a new document stored = doc.
Save(doc, stored, isNew) ==
  IF ~SchemaValid(doc)
    THEN [ok |-> FALSE, doc |-> stored]
    ELSE [ok |-> TRUE,
          doc |-> [PreSave(doc, isNew, doc.status # stored.status)
                     EXCEPT !.updatedAt = now]]

\* a collection without the unique index
ReferenceTaken_NoIndex(ref) == FALSE

\* unique index on internalReference
ReferenceTaken(ref) == \E i \in TxnIds : txns[i].internalReference = ref

\* getDefaultCurrency(country)
getDefaultCurrency(country) ==
  CASE country = "kenya" -> "KES"
    [] country = "tanzania" -> "TZS"
    [] country = "uganda" -> "UGX"
    [] country = "rwanda" -> "RWF"
    [] country = "mozambique" -> "MZN"
    [] country = "drc" -> "CDF"
    [] OTHER -> "KES"

\* MpesaClientFactory.createClient: only Kenya is implemented
ClientImplemented(country) == country = "kenya"

\* ------------------------------------------------------------------------
\* WebhookNotificationService and MpesaKenyaClient: construction
\* ------------------------------------------------------------------------
MaxAttemptsOption == 4

DefaultRetryAttempts == 3

\* options.retryAttempts as the constructor may be given it
RetryOptions == {JsUndefined, JsNum(0)} \cup {JsNum(n) : n \in 1..MaxAttemptsOption}

\* new WebhookNotificationService(options):
\* this.retryAttempts = options.retryAttempts || 3
NewWebhookService(option) ==
  [retryAttempts |-> JsOr(option, JsNum(DefaultRetryAttempts)).n,
   pc |-> "idle", attempt |-> 0, tags |-> <<>>, delays |-> <<>>, result |-> None]

MaxCallers == 2

Callers == 1..MaxCallers

\* no token: accessToken = null
NoToken == 0

\* no expiry: tokenExpiry = null
NoExpiry == -1

\* no handler is running beside the one that takes the step
NoProcs == <<>>

\* no helper function has been called
NoCall == [by |-> "none"]

\* new MpesaKenyaClient(config): accessToken = null, tokenExpiry = null; no
\* caller is inside authenticate, no request has been sent
NewClient ==
  [accessToken |-> NoToken, tokenExpiry |-> NoExpiry,
   pc |-> [c \in Callers |-> "idle"], got |-> [c \in Callers |-> NoToken],
   fetches |-> 0, issued |-> 0]

\* ------------------------------------------------------------------------
\* Initial state
\* ------------------------------------------------------------------------
Init ==
  /\ txns = <<>>
  /\ now = 0
  /\ checkoutSeq = 0
  /\ last = NoLast
  /\ webhook = NewWebhookService(JsUndefined)
  /\ client = NewClient
  /\ call = NoCall
  /\ procs = NoProcs

\* ------------------------------------------------------------------------
\* The clock
\* ------------------------------------------------------------------------
TickSteps == {31}

Tick ==
  \E d \in TickSteps :
    /\ now + d <= MaxTime
    /\ now' = now + d
    /\ last' = [NoLast EXCEPT !.op = "tick"]
    /\ UNCHANGED <<txns, checkoutSeq, webhook, client, call, procs>>

\* ------------------------------------------------------------------------
\* TransactionService.initiatePayment(data, apiKey)
\* ------------------------------------------------------------------------
\* the requests tried: the end-to-end request, a request with a caller
\* reference and retry metadata, a request for a country whose client is not
\* implemented, and requests that are rejected
Requests ==
  { [amount |-> 1000, currency |-> "KES", country |-> "kenya",
     phoneNumber |-> PhoneLocal, reference |-> None, metadata |-> NoMetadata],
    [amount |-> 1000, currency |-> None, country |-> "kenya",
     phoneNumber |-> PhoneLocal, reference |-> "r1",
     metadata |-> [canRetry |-> TRUE, retryCount |-> 0]],
    [amount |-> 0, currency |-> None, country |-> "tanzania",
     phoneNumber |-> PhoneLocal, reference |-> None, metadata |-> NoMetadata],
    [amount |-> -1, currency |-> None, country |-> "kenya",
     phoneNumber |-> PhoneLocal, reference |-> None, metadata |-> NoMetadata],
    [amount |-> 1000, currency |-> "USD", country |-> "kenya",
     phoneNumber |-> PhoneLocal, reference |-> None, metadata |-> NoMetadata],
    [amount |-> 1000, currency |-> None, country |-> "kenya",
     phoneNumber |-> PhoneShort, reference |-> None, metadata |-> NoMetadata],
    [amount |-> 1000, currency |-> None, country |-> "uganda",
     phoneNumber |-> PhoneLocal, reference |-> None, metadata |-> NoMetadata] }

\* outcomes of the gateway's STK push: accepted, or any GatewayError
StkOutcomes == {"ack", "network_timeout"}

NewTransaction(b, data, ref) ==
  [business |-> b,
   transactionType |-> "payment",
   amount |-> data.amount,
   currency |-> IF data.currency # None THEN data.currency
                ELSE getDefaultCurrency(data.country),
   country |-> data.country,
   phoneNumber |-> data.phoneNumber,
   internalReference |-> ref,
   status |-> "initiated",
   statusHistory |-> <<HistoryEntry("initiated", now, "initiatedBy", None)>>,
   mpesaReference |-> NoReference,
   callbackData |-> NoCallback,
   metadata |-> data.metadata,
   createdAt |-> now,
   updatedAt |-> now,
   processedAt |-> -1]

\* a catch block that removed the record it had created
LedgerAfterThrow_Rollback(ledger, created) == ledger

\* the catch block of initiatePayment logs and rethrows: the record created
\* before the gateway call stays in the collection as it was created
LedgerAfterThrow(ledger, created) == Append(ledger, created)

InitiatePayment(data, apiKey, stk) ==
  LET b == BusinessOfKey(apiKey)
      ref == IF data.reference # None THEN data.reference ELSE Uuid(Len(txns) + 1)
      created == Save(NewTransaction(b, data, ref), NewTransaction(b, data, ref), TRUE)
      id == Len(txns) + 1
      cid == CheckoutId(checkoutSeq + 1)
      pending == [created.doc EXCEPT
                    !.mpesaReference = cid,
                    !.status = "pending",
                    !.statusHistory = Append(@, HistoryEntry("pending", now, "mpesaReference", None))]
      saved == Save(pending, created.doc, FALSE)
      fail(err) == /\ last' = [Result("initiatePayment", 0, FALSE, err, None, None)
                                 EXCEPT !.ref = IF err = "DuplicateKey" THEN ref ELSE None]
                   /\ UNCHANGED <<txns, now, checkoutSeq>>
  IN
  /\ UNCHANGED <<webhook, client, call, procs>>
  /\ Len(txns) < MaxTxn
  \* an unknown or inactive API key is rejected before anything is read
  /\ b # None
  /\ KeyActive(apiKey)
  /\ IF data.country \notin Integrations(b) THEN fail("NoIntegration")
     ELSE IF ~created.ok THEN fail("ValidationError")
     ELSE IF ReferenceTaken(ref) THEN fail("DuplicateKey")
     ELSE IF ~ClientImplemented(data.country)
       THEN /\ txns' = LedgerAfterThrow(txns, created.doc)
            /\ last' = [Result("initiatePayment", id, FALSE, "NotImplemented", None, None)
                          EXCEPT !.ref = ref]
            /\ UNCHANGED <<now, checkoutSeq>>
     ELSE IF stk # "ack"
       THEN /\ txns' = LedgerAfterThrow(txns, created.doc)
            /\ last' = [Result("initiatePayment", id, FALSE, stk, "stkpush", None)
                          EXCEPT !.ref = ref]
            /\ UNCHANGED <<now, checkoutSeq>>
     ELSE /\ txns' = Append(txns, saved.doc)
          /\ checkoutSeq' = checkoutSeq + 1
          /\ last' = [Result("initiatePayment", id, TRUE, None, "stkpush", saved.doc.status)
                        EXCEPT !.ref = ref]
          /\ UNCHANGED now

\* TRUE when initiatePayment gets as far as the gateway call
ReachesGateway(data, apiKey) ==
  LET b == BusinessOfKey(apiKey)
      ref == IF data.reference # None THEN data.reference ELSE Uuid(Len(txns) + 1)
  IN /\ b # None
     /\ KeyActive(apiKey)
     /\ data.country \in Integrations(b)
     /\ SchemaValid(NewTransaction(b, data, ref))
     /\ ~ReferenceTaken(ref)
     /\ ClientImplemented(data.country)

\* the gateway's outcome is drawn only when the gateway is called
InitiatePaymentAction ==
  \E apiKey \in ApiKeys, data \in Requests :
    IF ReachesGateway(data, apiKey)
      THEN \E stk \in StkOutcomes : InitiatePayment(data, apiKey, stk)
      ELSE InitiatePayment(data, apiKey, "ack")

\* ------------------------------------------------------------------------
\* Lookups shared by the handlers
\* ------------------------------------------------------------------------
\* Transaction.findOne({ _id: transactionId, business: business._id })
FoundFor(id, b) == id \in TxnIds /\ txns[id].business = b

\* Transaction.findById(transactionId)
Found(id) == id \in TxnIds

RECURSIVE SumEntries(_, _)
SumEntries(ts, i) ==
  IF i = 0 THEN 0 ELSE Len(ts[i].statusHistory) + SumEntries(ts, i - 1)

\* the number of statusHistory entries in the whole collection
TotalEntries == SumEntries(txns, Len(txns))

\* room left in the histories for one more transition (the handler's entry
\* and the pre-save hook's entry)
HasRoom == TotalEntries + 2 <= MaxEntries

\* formatTransactionResponse(transaction): the fields of the API response;
\* the response carries no business field
formatTransactionResponse(t) ==
  [status |-> t.status, mpesaReference |-> t.mpesaReference,
   business |-> None]

\* ------------------------------------------------------------------------
\* TransactionService.checkTransactionStatus(transactionId, apiKey)
\* ------------------------------------------------------------------------
\* a final list that leaves out completed
CheckFinalStatuses_NoCompleted == {"failed", "canceled"}

\* statuses for which checkTransactionStatus returns the stored record
CheckFinalStatuses == {"completed", "failed", "canceled"}

ResultDescText == JsStr("The service request is processed successfully.")

\* replies of the gateway's STK push query: the ResultCode it carries
\* (the API returns it as a string), or a gateway error
StatusReplies ==
  { [err |-> FALSE, ResultCode |-> JsStr("0")],
    [err |-> FALSE, ResultCode |-> JsNum(0)],
    [err |-> FALSE, ResultCode |-> JsNum(CanceledByUserCode)],
    [err |-> FALSE, ResultCode |-> JsStr("1")],
    [err |-> TRUE, ResultCode |-> JsUndefined] }

\* the status checkTransactionStatus derives from a reply
StatusFromCheck(reply) ==
  LET resultCode == JsOr(reply.ResultCode, ResultDescText)
  IN IF StrictEq(resultCode, JsNum(0)) THEN "completed"
     ELSE IF StrictEq(resultCode, JsNum(CanceledByUserCode)) THEN "canceled"
     ELSE "failed"

CheckTransactionStatus(id, apiKey, reply) ==
  LET b == BusinessOfKey(apiKey)
      t == txns[id]
      newStatus == StatusFromCheck(reply)
      doc == [t EXCEPT !.status = newStatus,
                       !.statusHistory = Append(@, HistoryEntry(newStatus, now, "statusResponse", None))]
      saved == Save(doc, t, FALSE)
      done(ok, err, gw, ret) ==
        last' = [Result("checkStatus", id, ok, err, gw, ret)
                   EXCEPT !.reply = IF gw = None THEN JsUndefined ELSE reply.ResultCode]
  IN
  /\ UNCHANGED <<now, checkoutSeq, webhook, client, call, procs>>
  \* an unknown API key, and a transaction that is not found for the
  \* business, are rejected before anything else is done
  /\ b # None
  /\ FoundFor(id, b)
  /\ IF t.status \in CheckFinalStatuses
       THEN done(TRUE, None, None, t.status) /\ UNCHANGED txns
     ELSE IF t.country \notin Integrations(b)
       THEN done(FALSE, "NoIntegration", None, None) /\ UNCHANGED txns
     ELSE IF ~ClientImplemented(t.country)
       THEN done(FALSE, "NotImplemented", None, None) /\ UNCHANGED txns
     ELSE IF reply.err
       THEN done(FALSE, "GatewayError", "query", None) /\ UNCHANGED txns
     ELSE /\ HasRoom
          /\ txns' = [txns EXCEPT ![id] = saved.doc]
          /\ done(saved.ok, IF saved.ok THEN None ELSE "ValidationError", "query",
                  saved.doc.status)

\* TRUE when checkTransactionStatus gets as far as the gateway call
CheckReachesGateway(id, apiKey) ==
  /\ FoundFor(id, BusinessOfKey(apiKey))
  /\ txns[id].status \notin CheckFinalStatuses
  /\ txns[id].country \in Integrations(BusinessOfKey(apiKey))
  /\ ClientImplemented(txns[id].country)

\* the gateway's reply is drawn only when the gateway is called; the gateway
\* rejects a query that carries no CheckoutRequestID
CheckTransactionStatusAction ==
  \E id \in 1..MaxTxn, apiKey \in ApiKeys :
    IF CheckReachesGateway(id, apiKey)
      THEN \E reply \in StatusReplies :
             /\ txns[id].mpesaReference = NoReference => reply.err
             /\ CheckTransactionStatus(id, apiKey, reply)
      ELSE CheckTransactionStatus(id, apiKey, [err |-> TRUE, ResultCode |-> JsUndefined])

\* ------------------------------------------------------------------------
\* TransactionService.cancelTransaction(transactionId, apiKey)
\* ------------------------------------------------------------------------
\* a cancel that is also allowed from failed
CancelableStatuses_WithFailed == {"initiated", "pending", "failed"}

CancelableStatuses == {"initiated", "pending"}

CancelTransaction(id, apiKey) ==
  LET b == BusinessOfKey(apiKey)
      t == txns[id]
      doc == [t EXCEPT !.status = "canceled",
                       !.statusHistory = Append(@, HistoryEntry("canceled", now, "cancelledBy", None))]
      saved == Save(doc, t, FALSE)
      done(ok, err, ret) == last' = Result("cancel", id, ok, err, None, ret)
  IN
  /\ UNCHANGED <<now, checkoutSeq, webhook, client, call, procs>>
  \* an unknown or inactive API key, and a transaction that is not found
  \* for the business, are rejected before anything else is done
  /\ b # None
  /\ KeyActive(apiKey)
  /\ FoundFor(id, b)
  /\ IF t.status \notin CancelableStatuses
       THEN done(FALSE, "CannotCancel", None) /\ UNCHANGED txns
     ELSE /\ HasRoom
          /\ txns' = [txns EXCEPT ![id] = saved.doc]
          /\ done(saved.ok, IF saved.ok THEN None ELSE "ValidationError", saved.doc.status)

CancelTransactionAction ==
  \E id \in 1..MaxTxn, apiKey \in ApiKeys : CancelTransaction(id, apiKey)

\* ------------------------------------------------------------------------
\* WebhookService.handleMpesaCallback(transactionId, callbackData), which
\* runs TransactionService.processCallback and forwards to the business
\* ------------------------------------------------------------------------
ReceiptNumber == "LHG31AA4AY"

\* callback payloads: Body.stkCallback.{CheckoutRequestID, ResultCode} and the
\* MpesaReceiptNumber item of CallbackMetadata when present; the last one has
\* no Body at all
Callbacks ==
  [cid : 1..MaxTxn, resultCode : {JsNum(0)}, receipt : {ReceiptNumber}]
    \cup {[cid |-> 1, resultCode |-> JsNum(1), receipt |-> None]}
    \cup {[cid |-> 1, resultCode |-> JsNum(0), receipt |-> None]}
    \cup {[cid |-> NoReference, resultCode |-> JsUndefined, receipt |-> None]}

\* a processCallback that also takes the amount from the callback
CallbackDocument_SetsAmount(t, callbackData) ==
  [t EXCEPT !.callbackData = callbackData,
            !.amount = t.amount + 1,
            !.status = "completed",
            !.statusHistory = Append(@, HistoryEntry("completed", now, "resultCode", None))]

\* the document processCallback builds before it saves
CallbackDocument(t, callbackData) ==
  LET resultCode == callbackData.resultCode
      stored == [t EXCEPT !.callbackData = callbackData]
  IN IF t.country = "kenya"
       THEN IF StrictEq(resultCode, JsNum(0))
              THEN [stored EXCEPT
                      !.status = "completed",
                      !.statusHistory =
                        Append(@, IF callbackData.receipt # None
                                    THEN HistoryEntry("completed", now, "receipt", callbackData.receipt)
                                    ELSE HistoryEntry("completed", now, "resultCode", None))]
              ELSE [stored EXCEPT
                      !.status = "failed",
                      !.statusHistory = Append(@, HistoryEntry("failed", now, "resultCode", None))]
       ELSE stored

\* Business.findById(id) and its webhookUrl; findById(undefined) finds nothing
BusinessWebhookUrl(businessId) ==
  IF businessId \in Businesses THEN WebhookUrl(businessId) ELSE None

\* _forwardCallbackToBusiness(transaction): TRUE when a webhook is sent
ForwardsToBusiness(transaction) == BusinessWebhookUrl(transaction.business) # None

\* outcomes of the POST to the business's webhook URL
WebhookOutcomes == {"ok", "fail"}

\* _sendWebhook(url, payload): one axios.post, which resolves or throws
SendWebhook(url, outcome) == [sent |-> 1, ok |-> outcome = "ok"]

\* _forwardCallbackToBusiness(transaction), which handleMpesaCallback awaits:
\* the state of the delivery when it returns, and the posts it made. An error
\* of the post is caught and logged.
ForwardCallbackToBusiness(transaction, outcome) ==
  IF ~ForwardsToBusiness(transaction)
    THEN [delivery |-> "none", attempts |-> 0]
    ELSE LET r == SendWebhook(BusinessWebhookUrl(transaction.business), outcome)
         IN [delivery |-> IF r.ok THEN "delivered" ELSE "failed", attempts |-> r.sent]

\* a delivery that writes its failure back to the records
LedgerAfterDelivery_MarksFailed(ledger, forwarded) ==
  IF forwarded.delivery = "failed"
    THEN [i \in DOMAIN ledger |-> [ledger[i] EXCEPT !.status = "failed"]]
    ELSE ledger

\* the collection after the delivery: forwarding writes no record
LedgerAfterDelivery(ledger, forwarded) == ledger

HandleMpesaCallbackWith(transactionId, callbackData, outcome) ==
  LET t == txns[transactionId]
      doc == CallbackDocument(t, callbackData)
      saved == Save(doc, t, FALSE)
      updatedTransaction == formatTransactionResponse(saved.doc)
      forwarded == ForwardCallbackToBusiness(updatedTransaction, outcome)
  IN
  /\ UNCHANGED <<now, checkoutSeq, webhook, client, call, procs>>
  /\ IF ~Found(transactionId)
       THEN /\ last' = Result("callback", 0, FALSE, "FailedToProcessCallback", None, None)
            /\ UNCHANGED txns
       ELSE /\ HasRoom
            /\ txns' = IF saved.ok
                         THEN LedgerAfterDelivery([txns EXCEPT ![transactionId] = saved.doc],
                                                  forwarded)
                         ELSE txns
            /\ last' = IF saved.ok
                         THEN [Result("callback", transactionId, TRUE, None, None,
                                      saved.doc.status)
                                 EXCEPT !.notified = forwarded.delivery = "delivered",
                                        !.delivery = forwarded.delivery,
                                        !.attempts = forwarded.attempts]
                         ELSE Result("callback", transactionId, FALSE,
                                     "FailedToProcessCallback", None, saved.doc.status)

HandleMpesaCallback(transactionId, callbackData) ==
  \E outcome \in WebhookOutcomes :
    HandleMpesaCallbackWith(transactionId, callbackData, outcome)

HandleMpesaCallbackAction ==
  \E transactionId \in 1..MaxTxn, callbackData \in Callbacks :
    HandleMpesaCallback(transactionId, callbackData)

\* ------------------------------------------------------------------------
\* TransactionScheduler: the three sweeps
\* ------------------------------------------------------------------------
\* find(...).limit(n): the first n matching records
Limit(ids, n) ==
  LET found == ids
  IN {i \in found : Cardinality({j \in found : j < i}) < n}

\* for (const transaction of batch) { try { ... } catch (error) { log } }:
\* the items the loop gets to, when the items in threw throw inside the try
LoopReaches_AbortOnError(batch, threw) ==
  {i \in batch : \A j \in threw : i <= j}

LoopReaches(batch, threw) == batch

\* MpesaServiceFactory.getService(country): a service exists for the
\* countries that have a gateway client
ServiceAvailable(country) == ClientImplemented(country)

\* replies of the gateway service to checkTransactionStatus
SweepReplies ==
  { [err |-> FALSE, ResultCode |-> JsStr("0"), status |-> JsUndefined],
    [err |-> FALSE, ResultCode |-> JsStr("1"), status |-> JsUndefined],
    [err |-> FALSE, ResultCode |-> JsNum(0), status |-> JsUndefined],
    [err |-> TRUE, ResultCode |-> JsUndefined, status |-> JsUndefined] }

\* the status _checkPendingTransactions derives from a reply
StatusFromSweep(t, statusResponse) ==
  IF t.country = "kenya"
    THEN IF StrictEq(statusResponse.ResultCode, JsStr("0")) THEN "completed"
         ELSE IF StrictEq(statusResponse.ResultCode, JsStr("1")) THEN "failed"
         ELSE t.status
    ELSE IF StrictEq(statusResponse.status, JsStr("success")) THEN "completed"
         ELSE IF StrictEq(statusResponse.status, JsStr("failed")) THEN "failed"
         ELSE t.status

\* one iteration of the loop of _checkPendingTransactions
CheckPendingOne(t, statusResponse) ==
  LET newStatus == StatusFromSweep(t, statusResponse)
      doc == [t EXCEPT !.status = newStatus,
                       !.statusHistory = Append(@, HistoryEntry(newStatus, now, "statusResponse", None))]
  IN IF ~ServiceAvailable(t.country) THEN t
     ELSE IF t.mpesaReference = NoReference THEN t
     ELSE IF statusResponse.err THEN t
     ELSE IF newStatus # t.status THEN Save(doc, t, FALSE).doc
     ELSE t

PendingBatch ==
  Limit({i \in TxnIds : /\ txns[i].status = "pending"
                        /\ txns[i].updatedAt < now - PendingCutoffMinutes},
        PendingBatchLimit)

\* the items of the pending batch whose iteration throws
PendingThrew(replies) ==
  {i \in PendingBatch :
     \/ ~ServiceAvailable(txns[i].country)
     \/ txns[i].mpesaReference # NoReference /\ replies[i].err}

CheckPendingTransactions(replies) ==
  \E pendingTransactions \in {PendingBatch} :
  \E threw \in {PendingThrew(replies)} :
  \E reached \in {LoopReaches(pendingTransactions, threw)} :
  /\ pendingTransactions # {}
  /\ txns' = [i \in TxnIds |->
                IF i \in reached THEN CheckPendingOne(txns[i], replies[i]) ELSE txns[i]]
  /\ last' = [Result("checkPending", 0, TRUE, None, "query", None)
                EXCEPT !.batch = pendingTransactions, !.threw = threw]
  /\ UNCHANGED <<now, checkoutSeq, webhook, client, call, procs>>

CheckPendingTransactionsAction ==
  /\ TotalEntries + 2 * Cardinality(PendingBatch) <= MaxEntries
  /\ \E replies \in [PendingBatch -> SweepReplies] : CheckPendingTransactions(replies)

\* an iteration that records the expiry in the history only
CleanupExpiredOne_KeepsStatus(t) ==
  Save([t EXCEPT !.statusHistory = Append(@, HistoryEntry("expired", now, "timedOut", None))],
       t, FALSE).doc

\* one iteration of the loop of _cleanupExpiredTransactions
CleanupExpiredOne(t) ==
  Save([t EXCEPT !.status = "expired",
                 !.statusHistory = Append(@, HistoryEntry("expired", now, "timedOut", None))],
       t, FALSE).doc

\* a query that does not look at the age of the record
ExpiredBatch_AnyAge ==
  Limit({i \in TxnIds : txns[i].status = "initiated"}, ExpiredBatchLimit)

ExpiredBatch ==
  Limit({i \in TxnIds : /\ txns[i].status = "initiated"
                        /\ txns[i].createdAt < now - ExpiryCutoffMinutes},
        ExpiredBatchLimit)

\* _cleanupExpiredTransactions, where save() throws for the items in threw
\* (the database refusing the write)
CleanupExpiredWith(threw) ==
  LET reached == LoopReaches(ExpiredBatch, threw)
  IN
  /\ ExpiredBatch # {}
  /\ txns' = [i \in TxnIds |->
                IF i \in reached /\ i \notin threw
                  THEN CleanupExpiredOne(txns[i]) ELSE txns[i]]
  /\ last' = [Result("cleanupExpired", 0, TRUE, None, None, None)
                EXCEPT !.batch = ExpiredBatch, !.threw = threw]
  /\ UNCHANGED <<now, checkoutSeq, webhook, client, call, procs>>

CleanupExpiredTransactions ==
  /\ TotalEntries + 2 * Cardinality(ExpiredBatch) <= MaxEntries
  /\ CleanupExpiredWith({})

\* one iteration of the loop of _retryFailedTransactions: the record as it is
\* stored afterwards, and whether the payment was dispatched to the gateway.
\* metadata is a Map: transaction.metadata.retryCount reads and writes a plain
\* property of the in-memory object, which save() does not persist.
RetryOne(t, stk, cid) ==
  LET retryCount == 1
      d1 == [t EXCEPT !.status = "retry",
                      !.statusHistory = Append(@, HistoryEntry("retry", now, "retryCount", None))]
      s1 == Save(d1, t, FALSE)
      d2 == [s1.doc EXCEPT
               !.mpesaReference = cid,
               !.status = "pending",
               !.statusHistory = Append(@, HistoryEntry("pending", now, "mpesaReference", None))]
      s2 == Save(d2, s1.doc, FALSE)
      \* the catch block: push 'retry_failed' on the in-memory document and save
      caught(mem, stored) ==
        Save([mem EXCEPT !.statusHistory =
                Append(@, HistoryEntry("retry_failed", now, "error", None))],
             stored, FALSE).doc
  IN IF ~ServiceAvailable(t.country)
       THEN [doc |-> caught(t, t), dispatched |-> FALSE, threw |-> TRUE]
     ELSE IF ~s1.ok
       THEN [doc |-> caught(d1, t), dispatched |-> FALSE, threw |-> TRUE]
     ELSE IF stk # "ack"
       THEN [doc |-> caught(s1.doc, s1.doc), dispatched |-> TRUE, threw |-> TRUE]
     ELSE IF ~s2.ok
       THEN [doc |-> caught(d2, s1.doc), dispatched |-> TRUE, threw |-> TRUE]
     ELSE [doc |-> s2.doc, dispatched |-> TRUE, threw |-> FALSE]

\* a query that does not look at metadata.canRetry
RetryBatch_IgnoresFlag ==
  Limit({i \in TxnIds : /\ txns[i].status = "failed"
                        /\ txns[i].metadata.retryCount < MaxRetries},
        RetryBatchLimit)

RetryBatch ==
  Limit({i \in TxnIds : /\ txns[i].status = "failed"
                        /\ txns[i].metadata.canRetry
                        /\ txns[i].metadata.retryCount >= 0
                        /\ txns[i].metadata.retryCount < MaxRetries},
        RetryBatchLimit)

RetryFailedTransactions(outcomes) ==
  LET res(i) == RetryOne(txns[i], outcomes[i],
                         CheckoutId(checkoutSeq + Cardinality({j \in RetryBatch : j <= i})))
      threw == {i \in RetryBatch : res(i).threw}
      reached == LoopReaches(RetryBatch, threw)
      dispatched == {i \in reached : res(i).dispatched}
  IN
  /\ RetryBatch # {}
  /\ txns' = [i \in TxnIds |-> IF i \in reached THEN res(i).doc ELSE txns[i]]
  /\ checkoutSeq' = IF dispatched = {} THEN checkoutSeq
                     ELSE checkoutSeq + Cardinality(RetryBatch)
  /\ last' = [Result("retryFailed", 0, TRUE, None,
                     IF dispatched # {} THEN "stkpush" ELSE None, None)
                EXCEPT !.batch = RetryBatch, !.threw = threw]
  /\ UNCHANGED <<now, webhook, client, call, procs>>

RetryFailedTransactionsAction ==
  \E outcomes \in [RetryBatch -> StkOutcomes] : RetryFailedTransactions(outcomes)

Next ==
  \/ Tick
  \/ InitiatePaymentAction
  \/ CheckTransactionStatusAction
  \/ CancelTransactionAction
  \/ HandleMpesaCallbackAction
  \/ CheckPendingTransactionsAction
  \/ CleanupExpiredTransactions
  \/ RetryFailedTransactionsAction

Spec == Init /\ [][Next]_vars

\* ------------------------------------------------------------------------
\* The scheduler's sweeps over a collection of three records
\* ------------------------------------------------------------------------
SweepLen == 3

\* the record initiatePayment creates (Transaction.create)
InitiatedRecord(b, data, ref) ==
  Save(NewTransaction(b, data, ref), NewTransaction(b, data, ref), TRUE).doc

\* the record initiatePayment stores once the gateway has accepted the push
PendingRecord(b, data, ref, cid) ==
  Save([InitiatedRecord(b, data, ref) EXCEPT
          !.mpesaReference = cid,
          !.status = "pending",
          !.statusHistory = Append(@, HistoryEntry("pending", now, "mpesaReference", None))],
       InitiatedRecord(b, data, ref), FALSE).doc

\* the record after a failure callback on the pending record
FailedRecord(b, data, ref, cid) ==
  Save(CallbackDocument(PendingRecord(b, data, ref, cid),
                        [cid |-> cid, resultCode |-> JsNum(1), receipt |-> None]),
       PendingRecord(b, data, ref, cid), FALSE).doc

RetryableRequest ==
  [amount |-> 1000, currency |-> None, country |-> "kenya",
   phoneNumber |-> PhoneLocal, reference |-> None,
   metadata |-> [canRetry |-> TRUE, retryCount |-> 0]]

PlainRequest ==
  [amount |-> 1000, currency |-> "KES", country |-> "kenya",
   phoneNumber |-> PhoneLocal, reference |-> None, metadata |-> NoMetadata]

SweepKinds == {"initiated", "pending", "failed", "failed_retryable"}

SweepRecord(i, kind) ==
  CASE kind = "initiated" -> InitiatedRecord("b1", PlainRequest, Uuid(i))
    [] kind = "pending" -> PendingRecord("b1", PlainRequest, Uuid(i), CheckoutId(i))
    [] kind = "failed" -> FailedRecord("b1", PlainRequest, Uuid(i), CheckoutId(i))
    [] kind = "failed_retryable" ->
         FailedRecord("b1", RetryableRequest, Uuid(i), CheckoutId(i))

SweepInit ==
  /\ now = 0
  /\ checkoutSeq = SweepLen
  /\ last = NoLast
  /\ webhook = NewWebhookService(JsUndefined)
  /\ client = NewClient
  /\ call = NoCall
  /\ procs = NoProcs
  /\ \E kinds \in [1..SweepLen -> SweepKinds] :
       txns = [i \in 1..SweepLen |-> SweepRecord(i, kinds[i])]

SweepCheckPending ==
  \E replies \in [PendingBatch -> SweepReplies] : CheckPendingTransactions(replies)

SweepCleanupExpired ==
  \E threw \in SUBSET ExpiredBatch : CleanupExpiredWith(threw)

SweepRetryFailed ==
  \E outcomes \in [RetryBatch -> StkOutcomes] : RetryFailedTransactions(outcomes)

SweepNext ==
  \/ Tick
  \/ SweepCheckPending
  \/ SweepCleanupExpired
  \/ SweepRetryFailed

SweepSpec == SweepInit /\ [][SweepNext]_vars

\* ------------------------------------------------------------------------
\* WebhookNotificationService.send(payload) and _sendWithRetry(options)
\* ------------------------------------------------------------------------
\* payloads: url is a string with a scheme and a host, a string without a
\* scheme, or absent
WebhookPayloads ==
  { [url |-> [given |-> TRUE, scheme |-> "https", host |-> "b1.example"], data |-> TRUE],
    [url |-> [given |-> TRUE, scheme |-> None, host |-> "b1.example"], data |-> TRUE],
    [url |-> [given |-> FALSE, scheme |-> None, host |-> None], data |-> TRUE],
    [url |-> [given |-> TRUE, scheme |-> "https", host |-> "b1.example"], data |-> FALSE] }

\* validate(payload): url and data are required, new URL(url) must not throw
ValidPayload(payload) ==
  /\ payload.url.given
  /\ payload.data
  /\ payload.url.scheme # None

RECURSIVE Pow2(_)
\* Math.pow(2, n)
Pow2(n) == IF n = 0 THEN 1 ELSE 2 * Pow2(n - 1)

\* the backoff before the next attempt, in seconds: Math.pow(2, attempt) * 1000 ms
BackoffSeconds(attempt) == Pow2(attempt)

\* what send has done to the collection when it returns or throws
DeliveryOf(w) ==
  [delivery |-> IF w.result = "success" THEN "delivered" ELSE "failed",
   attempts |-> Len(w.tags)]

\* send(payload) up to the first request: validation, then the loop's entry
WebhookSend(payload) ==
  LET started == [webhook EXCEPT !.attempt = 1, !.tags = <<>>, !.delays = <<>>,
                                 !.result = None]
      rejected == [started EXCEPT !.pc = "done", !.attempt = 0, !.result = "AppError500"]
  IN
  /\ webhook.pc \in {"idle", "done"}
  /\ IF ValidPayload(payload) /\ 1 <= webhook.retryAttempts
       THEN /\ webhook' = [started EXCEPT !.pc = "request"]
            /\ txns' = txns
       ELSE /\ webhook' = rejected
            /\ txns' = LedgerAfterDelivery(txns, DeliveryOf(rejected))
  /\ UNCHANGED <<now, checkoutSeq, last, client, call, procs>>

WebhookSendAction == \E payload \in WebhookPayloads : WebhookSend(payload)

\* a loop that goes round once more than retryAttempts allows
LoopContinues_OneMore(attempt, retryAttempts) == attempt <= retryAttempts

\* for (attempt = 1; attempt <= this.retryAttempts; attempt++): after a failed
\* attempt, whether attempt + 1 is still within the limit
LoopContinues(attempt, retryAttempts) == attempt + 1 <= retryAttempts

\* one iteration of the loop of _sendWithRetry: the request, tagged with
\* X-Attempt-Number, and what follows from its outcome
WebhookAttempt(outcome) ==
  LET tagged == [webhook EXCEPT !.tags = Append(@, webhook.attempt)]
      succeeded == [tagged EXCEPT !.pc = "done", !.result = "success"]
      exhausted == [tagged EXCEPT !.pc = "done", !.result = "AppError500"]
  IN
  /\ webhook.pc = "request"
  /\ IF outcome = "ok"
       THEN /\ webhook' = succeeded
            /\ txns' = LedgerAfterDelivery(txns, DeliveryOf(succeeded))
     ELSE IF LoopContinues(webhook.attempt, webhook.retryAttempts)
       THEN /\ webhook' = [tagged EXCEPT !.pc = "backoff"]
            /\ txns' = txns
     ELSE /\ webhook' = exhausted
          /\ txns' = LedgerAfterDelivery(txns, DeliveryOf(exhausted))
  /\ UNCHANGED <<now, checkoutSeq, last, client, call, procs>>

WebhookAttemptAction == \E outcome \in WebhookOutcomes : WebhookAttempt(outcome)

\* the wait between two attempts, then attempt++
WebhookBackoff ==
  /\ webhook.pc = "backoff"
  /\ webhook' = [webhook EXCEPT !.pc = "request",
                                !.delays = Append(@, BackoffSeconds(webhook.attempt)),
                                !.attempt = @ + 1]
  /\ UNCHANGED <<txns, now, checkoutSeq, last, client, call, procs>>

\* WebhookService.testWebhook(businessId): one _sendWebhook to the business's
\* webhook URL; an error of the post is returned as { success: false }
TestWebhook(businessId, outcome) ==
  LET r == SendWebhook(BusinessWebhookUrl(businessId), outcome)
      forwarded == [delivery |-> IF r.ok THEN "delivered" ELSE "failed",
                    attempts |-> r.sent]
  IN
  /\ UNCHANGED <<now, checkoutSeq, webhook, client, call, procs>>
  /\ IF businessId \notin Businesses
       THEN /\ last' = Result("testWebhook", 0, FALSE, "BusinessNotFound", None, None)
            /\ txns' = txns
     ELSE IF BusinessWebhookUrl(businessId) = None
       THEN /\ last' = Result("testWebhook", 0, FALSE, "WebhookNotConfigured", None, None)
            /\ txns' = txns
     ELSE /\ last' = [Result("testWebhook", 0, r.ok, None, None, None)
                        EXCEPT !.notified = r.ok,
                               !.delivery = forwarded.delivery,
                               !.attempts = forwarded.attempts]
          /\ txns' = LedgerAfterDelivery(txns, forwarded)

TestWebhookAction ==
  \E businessId \in Businesses \cup {"b0"}, outcome \in WebhookOutcomes :
    TestWebhook(businessId, outcome)

DispatchInit ==
  /\ now = 0
  /\ checkoutSeq = 1
  /\ last = NoLast
  /\ client = NewClient
  /\ call = NoCall
  /\ procs = NoProcs
  /\ \E option \in RetryOptions : webhook = NewWebhookService(option)
  /\ \E kind \in SweepKinds : txns = <<SweepRecord(1, kind)>>

DispatchNext ==
  \/ WebhookSendAction
  \/ WebhookAttemptAction
  \/ WebhookBackoff
  \/ TestWebhookAction

DispatchSpec == DispatchInit /\ [][DispatchNext]_vars

\* ------------------------------------------------------------------------
\* MpesaKenyaClient.authenticate(), called by several callers of one client.
\* The clock counts minutes.
\* ------------------------------------------------------------------------
MaxFetches == 3

AuthMaxTime == 4

\* the minute subtracted from the reported lifetime (60000 ms)
SafetyMarginMinutes == 1

\* replies of the OAuth endpoint: a token with expires_in (in minutes), or an
\* error
TokenReplies ==
  { [ok |-> TRUE, expires_in |-> 2], [ok |-> TRUE, expires_in |-> 3],
    [ok |-> FALSE, expires_in |-> 0] }

\* this.accessToken && this.tokenExpiry && new Date() < this.tokenExpiry
TokenValid ==
  /\ client.accessToken # NoToken
  /\ client.tokenExpiry # NoExpiry
  /\ now < client.tokenExpiry

\* authenticate() up to its await: the cached token is returned, or the
\* request for a new one is sent
AuthCall(c) ==
  /\ client.pc[c] = "idle"
  /\ IF TokenValid
       THEN client' = [client EXCEPT !.pc[c] = "returned", !.got[c] = client.accessToken]
       ELSE /\ client.fetches < MaxFetches
            /\ client' = [client EXCEPT !.pc[c] = "fetching", !.fetches = @ + 1]
  /\ UNCHANGED <<txns, now, checkoutSeq, last, webhook, call, procs>>

\* authenticate() after its await: the token and its expiry are stored and the
\* token returned; an error goes to handleApiError, which throws
AuthResponse(c, reply) ==
  /\ client.pc[c] = "fetching"
  /\ IF reply.ok
       THEN client' = [client EXCEPT
                         !.issued = @ + 1,
                         !.accessToken = client.issued + 1,
                         !.tokenExpiry = now + reply.expires_in - SafetyMarginMinutes,
                         !.got[c] = client.issued + 1,
                         !.pc[c] = "returned"]
       ELSE client' = [client EXCEPT !.pc[c] = "failed"]
  /\ UNCHANGED <<txns, now, checkoutSeq, last, webhook, call, procs>>

\* the caller goes on with what authenticate gave it
AuthDone(c) ==
  /\ client.pc[c] \in {"returned", "failed"}
  /\ client' = [client EXCEPT !.pc[c] = "idle", !.got[c] = NoToken]
  /\ UNCHANGED <<txns, now, checkoutSeq, last, webhook, call, procs>>

AuthTick ==
  /\ now < AuthMaxTime
  /\ now' = now + 1
  /\ UNCHANGED <<txns, checkoutSeq, last, webhook, client, call, procs>>

AuthInit ==
  /\ txns = <<>>
  /\ now = 0
  /\ checkoutSeq = 0
  /\ last = NoLast
  /\ webhook = NewWebhookService(JsUndefined)
  /\ client = NewClient
  /\ call = NoCall
  /\ procs = NoProcs

AuthNext ==
  \/ \E c \in Callers : AuthCall(c)
  \/ \E c \in Callers, reply \in TokenReplies : AuthResponse(c, reply)
  \/ \E c \in Callers : AuthDone(c)
  \/ AuthTick

AuthSpec == AuthInit /\ [][AuthNext]_vars

\* ------------------------------------------------------------------------
\* Phone number formatting: TransactionValidator._normalizePhoneNumber and
\* the formatting inside MpesaKenyaClient.initiateSTKPush
\* ------------------------------------------------------------------------
\* the numbers tried: what callers write in front of the subscriber number,
\* and subscriber numbers written plainly or with separators
PhoneInputs ==
  LET PhonePrefixes ==
        { <<>>, <<"0">>, <<"+">>, <<"2", "5", "4">>, <<"+", "2", "5", "4">>,
          <<"\\", "2", "5", "4">>, <<"0", "0", "2", "5", "4">> }
      PhoneSubscribers ==
        { <<"7", "1", "2", "3", "4", "5", "6", "7", "8">>,
          <<"1", "1", "2", "3", "4", "5", "6", "7", "8">>,
          <<"7", "1", "2", " ", "3", "4", "5", " ", "6", "7", "8">>,
          <<"7", "1", "2", "-", "3", "4", "5", "6", "7", "8">> }
  IN { pre \o sub : pre \in PhonePrefixes, sub \in PhoneSubscribers }

\* phoneNumber.startsWith(prefix)
StartsWith(s, prefix) ==
  /\ Len(s) >= Len(prefix)
  /\ SubSeq(s, 1, Len(prefix)) = prefix

\* phoneNumber.substring(1)
Substring1(s) == IF Len(s) = 0 THEN s ELSE Tail(s)

\* phoneNumber.replace(/\D/g, '')
RemoveNonDigits(s) ==
  LET IsDigit(ch) == ch \in Digits
  IN SelectSeq(s, IsDigit)

\* phoneNumber.replace(/\\+/g, ''): the pattern is one or more backslashes
RemoveBackslashes(s) ==
  LET IsNotBackslash(ch) == ch # "\\"
  IN SelectSeq(s, IsNotBackslash)

\* the dialling code each case of _normalizePhoneNumber ensures
DiallingCode(country) ==
  CASE country = "kenya" -> <<"2", "5", "4">>
    [] country = "tanzania" -> <<"2", "5", "5">>
    [] country = "uganda" -> <<"2", "5", "6">>
    [] country = "rwanda" -> <<"2", "5", "0">>
    [] country = "mozambique" -> <<"2", "5", "8">>
    [] country = "drc" -> <<"2", "4", "3">>
    [] OTHER -> <<>>

\* TransactionValidator._normalizePhoneNumber(phoneNumber, country)
NormalizePhoneNumber(phoneNumber, country) ==
  LET cleaned == RemoveNonDigits(phoneNumber)
      code == DiallingCode(country)
  IN IF country \notin CountryEnum THEN cleaned
     ELSE IF StartsWith(cleaned, <<"0">>) THEN code \o Substring1(cleaned)
     ELSE IF ~StartsWith(cleaned, code) THEN code \o cleaned
     ELSE cleaned

\* MpesaKenyaClient.initiateSTKPush: the number put in PartyA and PhoneNumber
StkPhoneNumber(given) ==
  LET phoneNumber == RemoveBackslashes(given)
  IN IF StartsWith(phoneNumber, <<"2", "5", "4">>) THEN phoneNumber
     ELSE IF StartsWith(phoneNumber, <<"0">>)
       THEN <<"2", "5", "4">> \o Substring1(phoneNumber)
     ELSE IF StartsWith(phoneNumber, <<"7">>) \/ StartsWith(phoneNumber, <<"1">>)
       THEN <<"2", "5", "4">> \o phoneNumber
     ELSE phoneNumber

\* a request's phone number and country reach one of the two functions
PhoneCalls ==
  { [by |-> "none", phoneNumber |-> p, country |-> c, result |-> <<>>] :
      p \in PhoneInputs, c \in CountryEnum }

\* validatePaymentRequest normalises the number of the request
ValidatorNormalizes ==
  /\ call.by = "none"
  /\ call' = [call EXCEPT !.by = "validator",
                          !.result = NormalizePhoneNumber(call.phoneNumber, call.country)]
  /\ UNCHANGED <<txns, now, checkoutSeq, last, webhook, client, procs>>

\* the Kenya client formats the number of the STK push it is about to send
ClientFormats ==
  /\ call.by = "none"
  /\ call.country = "kenya"
  /\ call' = [call EXCEPT !.by = "client", !.result = StkPhoneNumber(call.phoneNumber)]
  /\ UNCHANGED <<txns, now, checkoutSeq, last, webhook, client, procs>>

\* the formatted number is given to the same function again
PhoneAgain ==
  /\ call.by # "none"
  /\ call.phoneNumber # call.result
  /\ call' = [call EXCEPT !.by = "none", !.phoneNumber = call.result, !.result = <<>>]
  /\ UNCHANGED <<txns, now, checkoutSeq, last, webhook, client, procs>>

PhoneInit ==
  /\ txns = <<>>
  /\ now = 0
  /\ checkoutSeq = 0
  /\ last = NoLast
  /\ webhook = NewWebhookService(JsUndefined)
  /\ client = NewClient
  /\ call \in PhoneCalls
  /\ procs = NoProcs

PhoneNext == ValidatorNormalizes \/ ClientFormats \/ PhoneAgain

PhoneSpec == PhoneInit /\ [][PhoneNext]_vars

\* ------------------------------------------------------------------------
\* WebhookService._sendWebhook and _generateSignature: the signature header
\* ------------------------------------------------------------------------
\* the URL a business has configured with configureWebhook
ConfiguredUrl(b) == IF b = "b1" THEN "https://b1.example/hook" ELSE "https://b2.example/hook"

\* bodies of the two kinds of webhook: the test event of testWebhook and the
\* transaction.updated event of _forwardCallbackToBusiness
WebhookBodies ==
  { [event |-> "test", business |-> b, status |-> None] : b \in Businesses }
  \cup
  { [event |-> "transaction.updated", business |-> b, status |-> s] :
      b \in Businesses, s \in {"completed", "failed", "canceled"} }

\* _generateSignature(payload): a placeholder
GenerateSignature(payload) == "signature-placeholder"

\* the request _sendWebhook posts: url, body and the X-Webhook-Signature header
SignedRequest(url, payload) ==
  [url |-> url, body |-> payload, signature |-> GenerateSignature(payload)]

\* _sendWebhook(business.webhookUrl, payload)
SendSignedWebhook(payload) ==
  /\ call.by = "sendWebhook"
  /\ call' = [call EXCEPT !.sent =
                @ \cup {SignedRequest(ConfiguredUrl(payload.business), payload)}]
  /\ UNCHANGED <<txns, now, checkoutSeq, last, webhook, client, procs>>

SendSignedWebhookAction == \E payload \in WebhookBodies : SendSignedWebhook(payload)

SignInit ==
  /\ txns = <<>>
  /\ now = 0
  /\ checkoutSeq = 0
  /\ last = NoLast
  /\ webhook = NewWebhookService(JsUndefined)
  /\ client = NewClient
  /\ call = [by |-> "sendWebhook", sent |-> {}]
  /\ procs = NoProcs

SignSpec == SignInit /\ [][SendSignedWebhookAction]_vars

\* ------------------------------------------------------------------------
\* Handlers running at the same time on one transaction. Each handler reads
\* the record (findOne / findById), builds the new document and runs save()
\* on it (validation, pre-save hook: every timestamp is taken here, in the
\* handler's process), and the update save() sends reaches the collection
\* later; nothing orders the updates of two handlers. The collection holds
\* the one transaction the handlers work on.
\* ------------------------------------------------------------------------
RaceMaxTime == 2

RaceHandlers == {"callback", "checkStatus", "cancel"}

\* what a handler is given: a gateway reply, a callback payload, or nothing
RaceInputs(h) ==
  CASE h = "checkStatus" ->
         { [err |-> FALSE, ResultCode |-> JsNum(0)],
           [err |-> FALSE, ResultCode |-> JsStr("1")] }
    [] h = "callback" ->
         { [cid |-> 1, resultCode |-> JsNum(0), receipt |-> ReceiptNumber],
           [cid |-> 1, resultCode |-> JsNum(1), receipt |-> None] }
    [] OTHER -> {None}

\* the document a handler builds from the one it read
RaceDocument(h, t, input) ==
  CASE h = "checkStatus" ->
         [t EXCEPT !.status = StatusFromCheck(input),
                   !.statusHistory =
                     Append(@, HistoryEntry(StatusFromCheck(input), now, "statusResponse", None))]
    [] h = "callback" -> CallbackDocument(t, input)
    [] OTHER ->
         [t EXCEPT !.status = "canceled",
                   !.statusHistory = Append(@, HistoryEntry("canceled", now, "cancelledBy", None))]

\* TRUE when the handler returns or throws after reading, without saving
RaceReturnsEarly(h, t) ==
  CASE h = "checkStatus" -> t.status \in CheckFinalStatuses
    [] h = "cancel" -> t.status \notin CancelableStatuses
    [] OTHER -> FALSE

\* the update save() sends for a document that was read as snap and is now
\* out: $set of the paths that were modified and $push of the entries that
\* were pushed to statusHistory, applied to the record as it is stored
ApplyUpdate(stored, snap, out) ==
  [f \in DOMAIN stored |->
     IF f = "statusHistory"
       THEN stored.statusHistory \o
              SubSeq(out.statusHistory, Len(snap.statusHistory) + 1, Len(out.statusHistory))
       ELSE IF out[f] # snap[f] THEN out[f] ELSE stored[f]]

\* the handler reads the record
RaceRead(h) ==
  /\ procs[h].pc = "idle"
  /\ procs' = [procs EXCEPT ![h] =
                 [pc |-> IF RaceReturnsEarly(h, txns[1]) THEN "done" ELSE "read",
                  snap |-> txns[1], out |-> txns[1]]]
  /\ UNCHANGED <<txns, now, checkoutSeq, last, webhook, client, call>>

\* the handler changes the document and calls save(): validation and the
\* pre-save hook run
RaceSave(h, input) ==
  LET snap == procs[h].snap
      saved == Save(RaceDocument(h, snap, input), snap, FALSE)
  IN /\ procs[h].pc = "read"
     /\ procs' = [procs EXCEPT ![h] =
                    [pc |-> IF saved.ok THEN "saving" ELSE "done",
                     snap |-> snap, out |-> saved.doc]]
     /\ UNCHANGED <<txns, now, checkoutSeq, last, webhook, client, call>>

\* the update reaches the collection
RaceWrite(h) ==
  /\ procs[h].pc = "saving"
  /\ txns' = [txns EXCEPT ![1] = ApplyUpdate(@, procs[h].snap, procs[h].out)]
  /\ procs' = [procs EXCEPT ![h].pc = "done"]
  /\ UNCHANGED <<now, checkoutSeq, last, webhook, client, call>>

RaceTick ==
  /\ now < RaceMaxTime
  /\ now' = now + 1
  /\ UNCHANGED <<txns, checkoutSeq, last, webhook, client, call, procs>>

RaceInit ==
  /\ now = 0
  /\ txns = <<PendingRecord("b1", PlainRequest, Uuid(1), CheckoutId(1))>>
  /\ checkoutSeq = 1
  /\ last = NoLast
  /\ webhook = NewWebhookService(JsUndefined)
  /\ client = NewClient
  /\ call = NoCall
  /\ procs = [h \in RaceHandlers |->
                [pc |-> "idle", snap |-> txns[1], out |-> txns[1]]]

RaceNext ==
  \/ \E h \in RaceHandlers : RaceRead(h)
  \/ \E h \in RaceHandlers : \E input \in RaceInputs(h) : RaceSave(h, input)
  \/ \E h \in RaceHandlers : RaceWrite(h)
  \/ RaceTick

RaceSpec == RaceInit /\ [][RaceNext]_vars

\* ------------------------------------------------------------------------
\* The scheduler's sweeps over a collection that holds more records than one
\* batch takes
\* ------------------------------------------------------------------------
BatchLen == 101

\* records 1..k are at initiated, the others are pending
BatchRecord(i, k) ==
  LET reference == "ref-" \o ToString(i)
  IN IF i <= k
       THEN InitiatedRecord("b1", RetryableRequest, reference)
       ELSE PendingRecord("b1", RetryableRequest, reference, CheckoutId(i))

BatchInit ==
  /\ now = 0
  /\ checkoutSeq = BatchLen
  /\ last = NoLast
  /\ webhook = NewWebhookService(JsUndefined)
  /\ client = NewClient
  /\ call = NoCall
  /\ procs = NoProcs
  \* how many of the records are at initiated: none, one, every tenth number
  \* up to the whole collection, and all of them
  /\ \E k \in {0, 1, BatchLen} \cup {n \in 1..BatchLen : n % 10 = 0} :
       txns = [i \in 1..BatchLen |-> BatchRecord(i, k)]

\* the gateway gives the same reply for every transaction of the run
BatchCheckPending ==
  \E reply \in SweepReplies :
    \E replies \in {[i \in PendingBatch |-> reply]} : CheckPendingTransactions(replies)

BatchCleanupExpired == CleanupExpiredWith({})

BatchRetryFailed ==
  \E stk \in StkOutcomes : RetryFailedTransactions([i \in RetryBatch |-> stk])

BatchNext ==
  \/ Tick
  \/ BatchCheckPending
  \/ BatchCleanupExpired
  \/ BatchRetryFailed

BatchSpec == BatchInit /\ [][BatchNext]_vars

\* ------------------------------------------------------------------------
\* Runs of the retry sweep that overlap: a run that lasts longer than the
\* interval of its cron job is still in its loop when the next one starts.
\* The collection holds one failed transaction that may be retried.
\* ------------------------------------------------------------------------
MaxSweepRuns == 5

RetryRuns == {"earlier", "later"}

\* the run loads its batch: Transaction.find({status: 'failed', ...})
RetryRunSelect(r) ==
  /\ procs[r].pc = "idle"
  /\ procs[r].runs < MaxSweepRuns
  /\ procs' = [procs EXCEPT ![r] =
                 IF 1 \in RetryBatch
                   THEN [@ EXCEPT !.pc = "selected", !.snap = txns[1]]
                   ELSE [@ EXCEPT !.runs = @ + 1]]
  /\ UNCHANGED <<txns, now, checkoutSeq, last, webhook, client, call>>

\* the run's loop handles the transaction it loaded
RetryRunHandle(r, stk) ==
  LET snap == procs[r].snap
      res == RetryOne(snap, stk, CheckoutId(checkoutSeq + 1))
  IN /\ procs[r].pc = "selected"
     /\ txns' = [txns EXCEPT ![1] = ApplyUpdate(@, snap, res.doc)]
     /\ checkoutSeq' = IF res.dispatched /\ stk = "ack" THEN checkoutSeq + 1 ELSE checkoutSeq
     /\ procs' = [procs EXCEPT ![r] =
                    [@ EXCEPT !.pc = "idle", !.runs = @ + 1,
                              !.dispatched = @ + (IF res.dispatched THEN 1 ELSE 0)]]
     /\ UNCHANGED <<now, last, webhook, client, call>>

RetryRaceInit ==
  /\ now = 0
  /\ txns = <<FailedRecord("b1", RetryableRequest, Uuid(1), CheckoutId(1))>>
  /\ checkoutSeq = 1
  /\ last = NoLast
  /\ webhook = NewWebhookService(JsUndefined)
  /\ client = NewClient
  /\ call = NoCall
  /\ procs = [r \in RetryRuns |->
                [pc |-> "idle", snap |-> txns[1], runs |-> 0, dispatched |-> 0]]

RetryRaceNext ==
  \/ \E r \in RetryRuns : RetryRunSelect(r)
  \/ \E r \in RetryRuns, stk \in StkOutcomes : RetryRunHandle(r, stk)

RetryRaceSpec == RetryRaceInit /\ [][RetryRaceNext]_vars

\* ------------------------------------------------------------------------
\* The sweeps over the large collection, with the timer of the pending
\* check firing again and again: setInterval in
\* _schedulePendingTransactionChecks starts a run every 5 minutes.
\* ------------------------------------------------------------------------
FairBatchSpec ==
  /\ BatchInit
  /\ [][BatchNext]_vars
  /\ WF_vars(Tick)
  /\ WF_vars(BatchCheckPending)

\* ------------------------------------------------------------------------
\* Vocabulary of the specification
\* ------------------------------------------------------------------------
\* the six statuses of the data model
\* the canonical Kenyan number of the specification's examples, and the same
\* number written with a plus sign
PhoneCanonical == <<"2", "5", "4", "7", "1", "2", "3", "4", "5", "6", "7", "8">>

PhonePlus == <<"+">> \o PhoneCanonical

\* the per-business secret the specification signs with
WebhookSecret(b) == IF b = "b1" THEN "secret-1" ELSE "secret-2"

LedgerStatuses == {"initiated", "pending", "completed", "failed", "canceled", "expired"}

\* terminal statuses
TerminalStatuses == {"completed", "expired", "canceled"}

\* the transition table
TransitionTable ==
  { <<"initiated", "pending">>, <<"initiated", "expired">>, <<"initiated", "canceled">>,
    <<"pending", "completed">>, <<"pending", "failed">>, <<"pending", "canceled">>,
    <<"failed", "pending">> }

\* the statuses of a history, in order
HistoryStatuses(t) == [k \in 1..Len(t.statusHistory) |-> t.statusHistory[k].status]

\* ------------------------------------------------------------------------
\* C1: every change of a stored status is one of the seven transitions of the
\* table, and the stored status and every history status is one of the six
\* ledger statuses.
\* ------------------------------------------------------------------------
C1_StepFollowsTable ==
  /\ \A i \in TxnIds :
       txns'[i].status # txns[i].status =>
         <<txns[i].status, txns'[i].status>> \in TransitionTable
  /\ \A i \in 1..Len(txns') :
       /\ txns'[i].status \in LedgerStatuses
       /\ \A k \in 1..Len(txns'[i].statusHistory) :
            txns'[i].statusHistory[k].status \in LedgerStatuses

C1_TransitionsFollowTable == [][C1_StepFollowsTable]_vars

\* ------------------------------------------------------------------------
\* C2: once a record is completed, expired or canceled, no operation changes
\* its status, its history or its correlation id.
\* ------------------------------------------------------------------------
C2_StepKeepsTerminal ==
  \A i \in TxnIds :
    txns[i].status \in TerminalStatuses =>
      /\ txns'[i].status = txns[i].status
      /\ txns'[i].statusHistory = txns[i].statusHistory
      /\ txns'[i].mpesaReference = txns[i].mpesaReference

C2_TerminalNeverChanges == [][C2_StepKeepsTerminal]_vars

\* ------------------------------------------------------------------------
\* C3: when the gateway call of initiatePayment fails, the created record is
\* moved to failed with the gateway error category as the reason, and the
\* caller gets the transaction together with the error.
\* ------------------------------------------------------------------------
C3_GatewayFailureRecorded ==
  (last.op = "initiatePayment" /\ last.gw = "stkpush" /\ ~last.ok) =>
    /\ last.txn \in TxnIds
    /\ txns[last.txn].status = "failed"
    /\ txns[last.txn].statusHistory[Len(txns[last.txn].statusHistory)].reason = last.err
    /\ last.ret = "failed"

\* ------------------------------------------------------------------------
\* C4: after an initiatePayment call that got past validation and the
\* integration lookup, exactly one record with the request's reference
\* exists, also when the gateway call failed or threw; unless the reference
\* was a duplicate, that record is the one this call created.
\* ------------------------------------------------------------------------
C4_RecordExistsAfterInitiate ==
  (last.op = "initiatePayment" /\ last.err \notin {"NoIntegration", "ValidationError"}) =>
    /\ Cardinality({i \in TxnIds : txns[i].internalReference = last.ref}) = 1
    /\ last.err # "DuplicateKey" =>
         /\ last.txn = Len(txns)
         /\ txns[last.txn].internalReference = last.ref
         /\ txns[last.txn].status \in {"initiated", "pending"}

C4_Witness ==
  /\ last.op = "initiatePayment"
  /\ last.gw = "stkpush"
  /\ ~last.ok
  /\ last.txn \in TxnIds
  /\ txns[last.txn].status = "initiated"

\* ------------------------------------------------------------------------
\* C5: a valid initiatePayment with a reference an existing record already
\* has is rejected as a duplicate, adds no record, calls no gateway and leaves the
\* collection as it was; no two records ever share a reference.
\* ------------------------------------------------------------------------
C5_StepRejectsDuplicate ==
  /\ \A i, j \in 1..Len(txns') :
       txns'[i].internalReference = txns'[j].internalReference => i = j
  /\ \A apiKey \in ApiKeys, data \in Requests :
       ( /\ data.reference # None
         /\ ReferenceTaken(data.reference)
         /\ data.country \in Integrations(BusinessOfKey(apiKey))
         /\ SchemaValid(NewTransaction(BusinessOfKey(apiKey), data, data.reference))
         /\ InitiatePayment(data, apiKey, "ack") )
       => /\ ~last'.ok
          /\ last'.err = "DuplicateKey"
          /\ last'.gw = None
          /\ txns' = txns

EndToEndRequest ==
  [amount |-> 1000, currency |-> "KES", country |-> "kenya",
   phoneNumber |-> PhoneLocal, reference |-> None, metadata |-> NoMetadata]

IsEndToEndRecord(t) ==
  /\ t.amount = 1000
  /\ t.currency = "KES"
  /\ t.country = "kenya"
  /\ t.phoneNumber = PhoneLocal

C6_StepEndToEnd ==
  /\ \A apiKey \in ApiKeys :
       ( /\ ReachesGateway(EndToEndRequest, apiKey)
         /\ InitiatePayment(EndToEndRequest, apiKey, "ack") ) =>
         /\ last'.ok
         /\ Len(txns') = Len(txns) + 1
         /\ txns'[Len(txns')].status = "pending"
         /\ txns'[Len(txns')].mpesaReference # NoReference
         /\ HistoryStatuses(txns'[Len(txns')])[1] = "initiated"
         /\ \A k \in 2..Len(txns'[Len(txns')].statusHistory) :
              txns'[Len(txns')].statusHistory[k].status = "pending"
  /\ \A id \in TxnIds, callbackData \in Callbacks :
       ( /\ IsEndToEndRecord(txns[id])
         /\ txns[id].status = "pending"
         /\ callbackData.cid = txns[id].mpesaReference
         /\ callbackData.resultCode = JsNum(0)
         /\ callbackData.receipt # None
         /\ HandleMpesaCallback(id, callbackData) )
       => /\ txns'[id].status = "completed"
          /\ \E k \in 1..Len(txns'[id].statusHistory) :
               /\ txns'[id].statusHistory[k].status = "completed"
               /\ txns'[id].statusHistory[k].receipt = callbackData.receipt
          /\ txns'[id].mpesaReference = txns[id].mpesaReference
  /\ \A id \in TxnIds, apiKey \in ApiKeys, reply \in StatusReplies :
       ( /\ IsEndToEndRecord(txns[id])
         /\ txns[id].status = "completed"
         /\ CheckTransactionStatus(id, apiKey, reply) )
       => /\ last'.ok
          /\ last'.gw = None
          /\ last'.ret = "completed"
          /\ txns' = txns

C6_EndToEnd == [][C6_StepEndToEnd]_vars

C6_Witness ==
  /\ last.op = "checkStatus"
  /\ last.gw = None
  /\ last.ret = "completed"
  /\ last.txn \in TxnIds
  /\ IsEndToEndRecord(txns[last.txn])
  /\ txns[last.txn].mpesaReference # NoReference
  /\ \E i, j, k \in 1..Len(txns[last.txn].statusHistory) :
       /\ i < j
       /\ j < k
       /\ txns[last.txn].statusHistory[i].status = "initiated"
       /\ txns[last.txn].statusHistory[j].status = "pending"
       /\ txns[last.txn].statusHistory[k].status = "completed"
       /\ txns[last.txn].statusHistory[k].receipt = ReceiptNumber

\* ------------------------------------------------------------------------
\* C7: checkStatus on a completed, expired or canceled record calls no
\* gateway, returns the stored status and changes nothing; on a record in any
\* other status, of a country that has a gateway client, it calls the gateway.
\* ------------------------------------------------------------------------
C7_StepCheckStatusGateway ==
  \A id \in TxnIds, apiKey \in ApiKeys, reply \in StatusReplies :
    ( /\ FoundFor(id, BusinessOfKey(apiKey))
      /\ ClientImplemented(txns[id].country)
      /\ CheckTransactionStatus(id, apiKey, reply) )
    => IF txns[id].status \in TerminalStatuses
         THEN /\ last'.gw = None
              /\ last'.ret = txns[id].status
              /\ txns' = txns
         ELSE last'.gw = "query"

C7_TerminalCheckIsCached == [][C7_StepCheckStatusGateway]_vars

\* ------------------------------------------------------------------------
\* C8: checkStatus on a pending record moves it to completed when the
\* gateway's reply carries result code "0", the form in which the gateway
\* client returns it, and to failed when the reply carries a failure code.
\* ------------------------------------------------------------------------
C8_StepPollAppliesResult ==
  \A id \in TxnIds, apiKey \in ApiKeys, reply \in StatusReplies :
    ( /\ FoundFor(id, BusinessOfKey(apiKey))
      /\ txns[id].status = "pending"
      /\ ~reply.err
      /\ CheckReachesGateway(id, apiKey)
      /\ CheckTransactionStatus(id, apiKey, reply) )
    => /\ reply.ResultCode = JsStr("0") => txns'[id].status = "completed"
       /\ reply.ResultCode = JsStr("1") => txns'[id].status = "failed"

C8_PollAppliesResult == [][C8_StepPollAppliesResult]_vars

\* ------------------------------------------------------------------------
\* C9: cancel succeeds exactly when the record is initiated or pending, and
\* then the record is canceled and no other record changes; from every other
\* status it is rejected and the collection is left as it was.
\* ------------------------------------------------------------------------
C9_StepCancel ==
  \A id \in TxnIds, apiKey \in ApiKeys :
    ( /\ FoundFor(id, BusinessOfKey(apiKey))
      /\ CancelTransaction(id, apiKey) )
    => IF txns[id].status \in {"initiated", "pending"}
         THEN /\ last'.ok
              /\ txns'[id].status = "canceled"
              /\ \A j \in TxnIds : j # id => txns'[j] = txns[j]
         ELSE /\ ~last'.ok
              /\ last'.err = "CannotCancel"
              /\ txns' = txns

C9_CancelOnlyFromOpen == [][C9_StepCancel]_vars

C9_Witness ==
  /\ last.op = "cancel"
  /\ ~last.ok
  /\ last.err = "CannotCancel"
  /\ last.txn \in TxnIds
  /\ txns[last.txn].status \in {"completed", "failed", "canceled", "expired"}

\* ------------------------------------------------------------------------
\* C10: a success callback carrying correlation id X moves the pending record
\* whose correlation id is X to completed, stores the payload on it, changes
\* no other record, and a notification is sent to the owning business.
\* ------------------------------------------------------------------------
C10_StepCallbackByCorrelationId ==
  \A transactionId \in TxnIds, callbackData \in Callbacks, j \in TxnIds :
    ( /\ callbackData.resultCode = JsNum(0)
      /\ txns[j].status = "pending"
      /\ txns[j].mpesaReference = callbackData.cid
      /\ HandleMpesaCallback(transactionId, callbackData) )
    => /\ txns'[j].status = "completed"
       /\ txns'[j].callbackData = callbackData
       /\ \A k \in TxnIds : k # j => txns'[k] = txns[k]
       /\ last'.notified

C10_CallbackByCorrelationId == [][C10_StepCallbackByCorrelationId]_vars

\* ------------------------------------------------------------------------
\* C11: a callback for an id that matches no record, or with a payload that
\* has no result code, is acknowledged as accepted and changes no record.
\* ------------------------------------------------------------------------
C11_StepUnprocessableCallbackAcked ==
  \A transactionId \in 1..MaxTxn, callbackData \in Callbacks :
    ( /\ ~Found(transactionId) \/ callbackData.resultCode = JsUndefined
      /\ HandleMpesaCallback(transactionId, callbackData) )
    => /\ last'.ok
       /\ last'.err = None
       /\ txns' = txns

C11_UnprocessableCallbackAcked == [][C11_StepUnprocessableCallbackAcked]_vars

\* ------------------------------------------------------------------------
\* C12: when the callback handler acknowledges a callback whose transition it
\* has persisted, for a business that has a webhook URL, the delivery of the
\* outcome has been handed off and the handler has not waited for its result.
\* ------------------------------------------------------------------------
C12_AckDoesNotWaitForDelivery ==
  ( /\ last.op = "callback"
    /\ last.ok
    /\ last.txn \in TxnIds
    /\ txns[last.txn].country = "kenya"
    /\ WebhookUrl(txns[last.txn].business) # None )
  => last.delivery = "handed_off"

\* ------------------------------------------------------------------------
\* C13: retryCount never exceeds the maximum of 3; the retry sweep works only
\* on records that are failed with canRetry = true and retryCount < 3, it
\* dispatches to the gateway only for such records, and it leaves every other
\* record, in particular every record with canRetry = false, as it was.
\* ------------------------------------------------------------------------
C13_StepRetryOnlyEligible ==
  /\ \A i \in 1..Len(txns') : txns'[i].metadata.retryCount <= 3
  /\ last'.op = "retryFailed" =>
       /\ \A i \in last'.batch :
            /\ i \in TxnIds
            /\ txns[i].status = "failed"
            /\ txns[i].metadata.canRetry
            /\ txns[i].metadata.retryCount < 3
       /\ last'.gw = "stkpush" => last'.batch # {}
       /\ \A i \in TxnIds :
            (i \notin last'.batch \/ ~txns[i].metadata.canRetry) => txns'[i] = txns[i]

C14_StepItemsIsolated ==
  /\ \A replies \in [PendingBatch -> SweepReplies] :
       CheckPendingTransactions(replies) =>
         \A i \in PendingBatch : txns'[i] = CheckPendingOne(txns[i], replies[i])
  /\ \A threw \in SUBSET ExpiredBatch :
       CleanupExpiredWith(threw) =>
         \A i \in ExpiredBatch \ threw : txns'[i] = CleanupExpiredOne(txns[i])
  /\ \A outcomes \in [RetryBatch -> StkOutcomes] :
       RetryFailedTransactions(outcomes) =>
         \A i \in RetryBatch :
           txns'[i] = RetryOne(txns[i], outcomes[i],
                               CheckoutId(checkoutSeq
                                          + Cardinality({j \in RetryBatch : j <= i}))).doc

C14_ItemsIsolated == [][C14_StepItemsIsolated]_vars

C14_Witness ==
  /\ last.op = "checkPending"
  /\ \E i, j \in last.batch :
       /\ i < j
       /\ i \in last.threw
       /\ txns[i].status = "pending"
       /\ txns[j].status = "completed"

\* ------------------------------------------------------------------------
\* C15: every status transition appends exactly one history entry: a record
\* is created with one entry, has two once initiatePayment has moved it to
\* pending, and every later change of its status adds one entry.
\* ------------------------------------------------------------------------
C15_StepOneEntryPerTransition ==
  /\ \A i \in TxnIds :
       txns'[i].status # txns[i].status =>
         Len(txns'[i].statusHistory) = Len(txns[i].statusHistory) + 1
  /\ \A i \in 1..Len(txns') :
       i \notin TxnIds =>
         Len(txns'[i].statusHistory) = IF txns'[i].status = "initiated" THEN 1 ELSE 2

C15_OneEntryPerTransition == [][C15_StepOneEntryPerTransition]_vars

\* ------------------------------------------------------------------------
\* C16: once a record's gateway correlation id is set, no operation changes
\* it: not checkStatus, a callback, cancel, nor any of the sweeps.
\* ------------------------------------------------------------------------
C16_StepCorrelationIdKept ==
  \A i \in TxnIds :
    txns[i].mpesaReference # NoReference =>
      txns'[i].mpesaReference = txns[i].mpesaReference

C17_StepSendAttempts ==
  /\ NewWebhookService(JsUndefined).retryAttempts = 3
  /\ webhook'.tags = [k \in 1..Len(webhook'.tags) |-> k]
  /\ Len(webhook'.tags) <= webhook'.retryAttempts
  /\ (webhook'.pc = "done" /\ webhook'.result = "AppError500" /\ webhook'.attempt > 0) =>
       Len(webhook'.tags) = webhook'.retryAttempts
  /\ (webhook'.pc = "done" /\ webhook'.result = "success") =>
       /\ Len(webhook'.tags) = webhook'.attempt
       /\ webhook' # webhook => webhook.pc = "request"
  /\ (webhook.pc = "done" /\ webhook' # webhook) => webhook'.tags = <<>>

C17_SendAttempts == [][C17_StepSendAttempts]_vars

C17_Witness ==
  /\ webhook.pc = "done"
  /\ webhook.result = "AppError500"
  /\ webhook.retryAttempts = 3
  /\ webhook.tags = <<1, 2, 3>>

\* ------------------------------------------------------------------------
\* C18: when a callback has changed a record's status and the business has a
\* webhook URL, the outcome event is either delivered or given up only after
\* three delivery attempts.
\* ------------------------------------------------------------------------
C18_CallbackDeliveryRetried ==
  ( /\ last.op = "callback"
    /\ last.ok
    /\ last.txn \in TxnIds
    /\ txns[last.txn].country = "kenya"
    /\ WebhookUrl(txns[last.txn].business) # None )
  => \/ last.delivery = "delivered"
     \/ last.attempts = 3

\* ------------------------------------------------------------------------
\* C19: a webhook delivery, whether it succeeds, fails or exhausts its
\* retries, changes no record: status, history, retryCount and correlation id
\* are after every step of the delivery what they were before it.
\* ------------------------------------------------------------------------
C19_StepDeliveryWritesNoRecord ==
  (webhook' # webhook \/ last'.op = "testWebhook") =>
    /\ Len(txns') = Len(txns)
    /\ \A i \in TxnIds :
         /\ txns'[i].status = txns[i].status
         /\ txns'[i].statusHistory = txns[i].statusHistory
         /\ txns'[i].metadata = txns[i].metadata
         /\ txns'[i].mpesaReference = txns[i].mpesaReference
         /\ txns'[i] = txns[i]

C19_DeliveryWritesNoRecord == [][C19_StepDeliveryWritesNoRecord]_vars

C19_Witness ==
  /\ webhook.pc = "done"
  /\ webhook.result = "AppError500"
  /\ Len(webhook.tags) = webhook.retryAttempts
  /\ last.op = "testWebhook"
  /\ last.delivery = "failed"
  /\ Len(txns) = 1
  /\ txns[1].status = "pending"

\* ------------------------------------------------------------------------
\* C20: for one client, at most one credential fetch is outstanding at any
\* time, however many callers are inside authenticate; and a call made while
\* the cached credential is valid sends no fetch and returns the cached one.
\* ------------------------------------------------------------------------
C20_StepSingleFlight ==
  /\ Cardinality({c \in Callers : client'.pc[c] = "fetching"}) <= 1
  /\ \A c \in Callers :
       (TokenValid /\ AuthCall(c)) =>
         /\ client'.fetches = client.fetches
         /\ client'.got[c] = client.accessToken

C20_SingleFlight == [][C20_StepSingleFlight]_vars

\* ------------------------------------------------------------------------
\* C21: an initiatePayment call that fails with a validation or configuration
\* error (a rejected field, no integration for the country, a country with no
\* client) adds no record to the ledger and sends nothing to the gateway.
\* ------------------------------------------------------------------------
C21_StepSyncErrorCreatesNothing ==
  \A apiKey \in ApiKeys, data \in Requests, stk \in StkOutcomes :
    (/\ InitiatePayment(data, apiKey, stk)
     /\ last'.err \in {"ValidationError", "NoIntegration", "NotImplemented"}) =>
      /\ txns' = txns
      /\ last'.gw = None

C21_SyncErrorCreatesNothing == [][C21_StepSyncErrorCreatesNothing]_vars

\* ------------------------------------------------------------------------
\* C22: every record in the ledger has an amount greater than 0 (requests
\* with another amount are rejected before a record is created).
\* ------------------------------------------------------------------------
C22_AmountsPositive == \A i \in TxnIds : txns[i].amount > 0

\* ------------------------------------------------------------------------
\* C23: for Kenya, the request validator and the Kenya client both turn
\* "0712345678" and "+254712345678" into "254712345678", and both return
\* "254712345678" unchanged.
\* ------------------------------------------------------------------------
C23_PhoneNormalized ==
  (/\ call.by \in {"validator", "client"}
   /\ call.country = "kenya"
   /\ call.phoneNumber \in {PhoneLocal, PhonePlus, PhoneCanonical}) =>
    call.result = PhoneCanonical

\* ------------------------------------------------------------------------
\* C24: two webhooks that differ in their body, or that were sent for
\* businesses with different secrets, never carry the same signature.
\* ------------------------------------------------------------------------
C24_SignatureDependsOnBodyAndSecret ==
  call.by = "sendWebhook" =>
    \A w1 \in call.sent, w2 \in call.sent :
      (\/ w1.body # w2.body
       \/ WebhookSecret(w1.body.business) # WebhookSecret(w2.body.business)) =>
        w1.signature # w2.signature

\* ------------------------------------------------------------------------
\* C25: in every state, also with a callback, a status check and a cancel
\* running at the same time on one transaction, the timestamps of the status
\* history never decrease from one entry to the next.
\* ------------------------------------------------------------------------
C25_HistoryTimeOrdered ==
  \A i \in TxnIds :
    \A k \in 1..(Len(txns[i].statusHistory) - 1) :
      txns[i].statusHistory[k].timestamp <= txns[i].statusHistory[k + 1].timestamp

\* ------------------------------------------------------------------------
\* C26: when the retry sweep has handled a transaction, the stored status is
\* not "retry": it is "pending" when the gateway accepted the re-dispatch and
\* "failed" when the re-dispatch ended in an error.
\* ------------------------------------------------------------------------
C26_StepRetrySettles ==
  \A outcomes \in [RetryBatch -> StkOutcomes] :
    RetryFailedTransactions(outcomes) =>
      \A i \in RetryBatch :
        /\ txns'[i].status # "retry"
        /\ outcomes[i] = "ack" => txns'[i].status = "pending"
        /\ outcomes[i] # "ack" => txns'[i].status = "failed"

C26_RetrySettles == [][C26_StepRetrySettles]_vars

\* ------------------------------------------------------------------------
\* C27: for a pending transaction and a gateway status reply, the
\* reconciliation sweep leaves the record in the status that
\* checkTransactionStatus derives from the same reply.
\* ------------------------------------------------------------------------
C27_StepSweepAgreesWithCheck ==
  \A replies \in [PendingBatch -> SweepReplies] :
    CheckPendingTransactions(replies) =>
      \A i \in PendingBatch :
        (~replies[i].err /\ txns[i].mpesaReference # NoReference) =>
          txns'[i].status = StatusFromCheck(replies[i])

C27_SweepAgreesWithCheck == [][C27_StepSweepAgreesWithCheck]_vars

\* ------------------------------------------------------------------------
\* C28: the expiry sweep sets to "expired" every record that is at
\* "initiated", was created more than 30 minutes before the sweep and has no
\* correlation id, and leaves every other record, pending ones included, as
\* it was.
\* ------------------------------------------------------------------------
C28_StepExpiryOnlyStale ==
  CleanupExpiredWith({}) =>
    \A i \in TxnIds :
      IF /\ txns[i].status = "initiated"
         /\ txns[i].createdAt < now - 30
         /\ txns[i].mpesaReference = NoReference
        THEN txns'[i].status = "expired"
        ELSE txns'[i] = txns[i]

C28_ExpiryOnlyStale == [][C28_StepExpiryOnlyStale]_vars

C28_Witness ==
  /\ last.op = "cleanupExpired"
  /\ \E i, j \in TxnIds :
       /\ txns[i].status = "expired"
       /\ txns[i].createdAt < now - 30
       /\ txns[j].status = "pending"
       /\ txns[j].createdAt < now - 30

\* ------------------------------------------------------------------------
\* C29: a sweep run again at once, with the gateway giving the same replies,
\* changes no record: status, history and retry count all stay as the first
\* run left them.
\* ------------------------------------------------------------------------
C29_StepRerunChangesNothing ==
  /\ CleanupExpiredWith({}) =>
       \A i \in ExpiredBatch' : (CleanupExpiredOne(txns[i]))' = txns'[i]
  /\ \A reply \in SweepReplies :
       CheckPendingTransactions([i \in PendingBatch |-> reply]) =>
         \A i \in PendingBatch' : (CheckPendingOne(txns[i], reply))' = txns'[i]
  /\ \A stk \in StkOutcomes :
       RetryFailedTransactions([i \in RetryBatch |-> stk]) =>
         \A i \in RetryBatch' :
           (RetryOne(txns[i], stk, CheckoutId(checkoutSeq + i)))'.doc = txns'[i]

C29_RerunChangesNothing == [][C29_StepRerunChangesNothing]_vars

\* C29, amended: a sweep run again at once, with the gateway giving the same
\* replies, changes no record that the first run had in its batch; records
\* beyond the batch limit are taken up by the second run.
C29_StepRerunKeepsHandled ==
  /\ CleanupExpiredWith({}) =>
       \A i \in ExpiredBatch :
         i \in ExpiredBatch' => (CleanupExpiredOne(txns[i]))' = txns'[i]
  /\ \A reply \in SweepReplies :
       CheckPendingTransactions([i \in PendingBatch |-> reply]) =>
         \A i \in PendingBatch :
           i \in PendingBatch' => (CheckPendingOne(txns[i], reply))' = txns'[i]
  /\ \A stk \in StkOutcomes :
       RetryFailedTransactions([i \in RetryBatch |-> stk]) =>
         \A i \in RetryBatch :
           i \in RetryBatch' =>
             (RetryOne(txns[i], stk, CheckoutId(checkoutSeq + i)))'.doc = txns'[i]

C29_RerunKeepsHandled == [][C29_StepRerunKeepsHandled]_vars

C29_Witness ==
  /\ last.op = "cleanupExpired"
  /\ Cardinality(last.batch) = 100
  /\ \A i \in last.batch : txns[i].status = "expired"
  /\ \E i \in TxnIds : i \notin last.batch /\ txns[i].status = "initiated"

\* ------------------------------------------------------------------------
\* C30: the dispatcher waits 2^(k-1) seconds between failed attempt k and
\* attempt k+1 (1 s after the first failure, 2 s after the second), and it
\* does not wait after the last attempt.
\* ------------------------------------------------------------------------
C30_BackoffDoubles ==
  /\ \A k \in 1..Len(webhook.delays) : webhook.delays[k] = 2^(k - 1)
  /\ Len(webhook.delays) < webhook.retryAttempts

\* ------------------------------------------------------------------------
\* C31: processedAt is unset while the record has never been at a terminal
\* status and is set once it has reached one (completed, expired or
\* canceled).
\* ------------------------------------------------------------------------
C31_ProcessedAtMarksTerminal ==
  \A i \in TxnIds :
    (txns[i].processedAt # -1) <=>
      \E k \in 1..Len(txns[i].statusHistory) :
        txns[i].statusHistory[k].status \in TerminalStatuses

\* ------------------------------------------------------------------------
\* C32: every record has a status history that is not empty, and the first
\* entry carries the status the record was created with, "initiated".
\* ------------------------------------------------------------------------
C32_HistoryStartsAtCreation ==
  \A i \in TxnIds :
    /\ Len(txns[i].statusHistory) >= 1
    /\ txns[i].statusHistory[1].status = "initiated"

C32_Witness ==
  \E i \in TxnIds :
    /\ txns[i].status = "completed"
    /\ Len(txns[i].statusHistory) > 1
    /\ txns[i].statusHistory[1].status = "initiated"

\* ------------------------------------------------------------------------
\* C33: no operation removes a record from the ledger, and after every
\* operation the history a record had before is a prefix of the history it
\* has now: entries are only appended.
\* ------------------------------------------------------------------------
C33_StepAppendOnly ==
  /\ Len(txns') >= Len(txns)
  /\ \A i \in TxnIds :
       /\ txns'[i].internalReference = txns[i].internalReference
       /\ Len(txns'[i].statusHistory) >= Len(txns[i].statusHistory)
       /\ SubSeq(txns'[i].statusHistory, 1, Len(txns[i].statusHistory))
            = txns[i].statusHistory

C33_AppendOnly == [][C33_StepAppendOnly]_vars

C33_Witness ==
  /\ last.op = "callback"
  /\ last.ok
  /\ \E i \in TxnIds :
       /\ last.txn = i
       /\ Len(txns[i].statusHistory) = 5
       /\ HistoryStatuses(txns[i])[1] = "initiated"
       /\ HistoryStatuses(txns[i])[5] = "completed"

\* ------------------------------------------------------------------------
\* C34: a record is stored with the amount and currency of its request, and
\* no operation changes the amount or the currency of a record that exists.
\* ------------------------------------------------------------------------
C34_StepAmountCurrencyKept ==
  /\ \A i \in TxnIds :
       /\ txns'[i].amount = txns[i].amount
       /\ txns'[i].currency = txns[i].currency
  /\ \A apiKey \in ApiKeys, data \in Requests, stk \in StkOutcomes :
       (InitiatePayment(data, apiKey, stk) /\ Len(txns') > Len(txns)) =>
         /\ txns'[Len(txns')].amount = data.amount
         /\ txns'[Len(txns')].currency =
              IF data.currency # None THEN data.currency
              ELSE getDefaultCurrency(data.country)

C34_AmountCurrencyKept == [][C34_StepAmountCurrencyKept]_vars

C34_Witness ==
  /\ last.op = "cancel"
  /\ last.ok
  /\ \E i \in TxnIds :
       /\ last.txn = i
       /\ txns[i].status = "canceled"
       /\ txns[i].amount = 1000
       /\ txns[i].currency = "KES"

\* ------------------------------------------------------------------------
\* C35: when handlers for one pending transaction run at the same time, only
\* one outcome is recorded: the history never holds two different outcomes
\* of the pending state, and the stored status is the outcome written first.
\* ------------------------------------------------------------------------
C35_OneOutcomeRecorded ==
  \A i \in TxnIds :
    LET outcomes == {k \in 1..Len(txns[i].statusHistory) :
                       txns[i].statusHistory[k].status \notin {"initiated", "pending"}}
    IN \A k \in outcomes :
         /\ txns[i].statusHistory[k].status = txns[i].status
         /\ \A m \in outcomes :
              txns[i].statusHistory[m].status = txns[i].statusHistory[k].status

C37_EligibleEventuallyPolled ==
  \A i \in {1, PendingBatchLimit, PendingBatchLimit + 1} :
    (/\ txns[i].status = "pending"
     /\ txns[i].mpesaReference # NoReference
     /\ txns[i].updatedAt < now - PendingCutoffMinutes)
    ~> (\/ txns[i].status # "pending"
        \/ last.op = "checkPending" /\ i \in last.batch)

\* the stored status of every transaction is the status of the last entry of
\* its history
C38_StatusIsLastEntry ==
  \A i \in TxnIds :
    /\ Len(txns[i].statusHistory) >= 1
    /\ txns[i].status = txns[i].statusHistory[Len(txns[i].statusHistory)].status

\* ------------------------------------------------------------------------
\* C38: at rest (no handler is between its read and its write) the stored
\* status of every transaction is the status of the last entry of its
\* history.
\* ------------------------------------------------------------------------
C38_AtRestAfterRace ==
  (\A h \in DOMAIN procs : procs[h].pc = "done") => C38_StatusIsLastEntry

====
